---- MODULE Spec2Model ----
(***************************************************************************)
(* Model of the asynchronous job orchestrator of transcribe.py (WhisperGUI):*)
(* the interactive thread (Tk main loop: form edits, start_transcription,  *)
(* the after(200) progress ticker, the after(0) status callbacks) and the  *)
(* background worker thread running _do_transcription.                     *)
(*                                                                         *)
(* Units: every quantity the code holds in seconds (the probed duration,   *)
(* estimated_seconds) is held here in milliseconds, so that 1.2 * duration *)
(* stays an integer.  The progress value is a rational [num, den].         *)
(* Paths and entry texts are sequences of one-character strings, so that   *)
(* str.strip() is computed and not assumed.                                *)
(***************************************************************************)
EXTENDS Integers, Sequences, FiniteSets, TLC

(* ----------------------------- bounds ---------------------------------- *)
MaxJobs  == 2      \* threads ever spawned
MaxEdits == 1      \* edits of the form fields, the first choice of an input file apart
MaxTicks == 2      \* ticks that observe the worker alive, per job
MaxPending == 2    \* after(0) callbacks pending at a time
MaxLongTicks == 180   \* ticks of the one long job of TickerSpec

(* ------------------------ program constants ---------------------------- *)
TickMs     == 200      \* after(200, ...) and elapsed_ms += 200
PctCap     == 98       \* min(pct, 98)
FallbackMs == 60000    \* duration_sec = 60, in ms

(* ------------------------------ domains -------------------------------- *)
Blank == " "
None  == 0             \* worker_thread = None
Unset == "-"           \* a local of the worker not assigned yet
NoBox == "none"        \* the step raised no messagebox
MainThread == "MainThread"   \* the thread of the Tk main loop
Worker == "Thread"           \* a threading.Thread running _do_transcription

InputTexts    == { <<>>, <<Blank, "b">>, <<"x">> }
ExistingFiles == { <<"b">> }                   \* os.path.exists
OutputTexts   == { <<"o">>, <<"p", Blank>> }
Models        == { "large", "tiny" }
Languages     == { "German", "Auto" }
Devices       == { "cuda", "cpu" }
ProbeResults  == { 0, 200, 30000 }             \* get_media_duration's float, in ms; 0.0: the probe failed

(* ------------------------------ helpers -------------------------------- *)
RECURSIVE LStrip(_)
LStrip(s) ==
    IF s # <<>> /\ Head(s) = Blank THEN LStrip(Tail(s)) ELSE s

RECURSIVE RStrip(_)
RStrip(s) ==
    IF s # <<>> /\ s[Len(s)] = Blank THEN RStrip(SubSeq(s, 1, Len(s) - 1)) ELSE s

\* str.strip()
Strip(s) == RStrip(LStrip(s))

\* a Python bool held in a field that may also be Unset
PyBool(b) == IF b THEN "True" ELSE "False"

RECURSIVE GCD(_, _)
GCD(a, b) == IF b = 0 THEN a ELSE GCD(b, a % b)

\* the rational n/d (n >= 0, d > 0) in lowest terms, as [num, den]; stands for a float
Rat(n, d) ==
    LET g == GCD(n, d)
    IN  [num |-> n \div g, den |-> d \div g]

RatLE(a, b) == a.num * b.den <= b.num * a.den

RatMin(a, b) == IF RatLE(a, b) THEN a ELSE b

(* ------------------------------- state --------------------------------- *)
VARIABLES
    input_var, model_var, lang_var, device_var, output_var,  \* tk.StringVar form fields
    worker_thread,        \* None or the index in threads of the Thread object held
    threads,              \* every Thread ever started, in start order
    estimated_seconds,    \* in ms
    elapsed_ms,
    progress,             \* self.progress["value"], a rational
    status_var,
    afterQueue,           \* pending after(0, _update) callbacks, oldest first
    ticks,                \* pending after(200, _progress_tick) callbacks
    posted, applied,      \* history: status messages posted / applied, in order; a
                          \* step that extends it first forgets the Settled jobs
    msgbox,               \* history: the messagebox raised by the step just taken
    edits                 \* history: number of form edits so far (see MaxEdits)

formVars == <<input_var, model_var, lang_var, device_var, output_var>>

etaVars == <<estimated_seconds, elapsed_ms, progress>>

vars == <<input_var, model_var, lang_var, device_var, output_var, worker_thread,
          threads, estimated_seconds, elapsed_ms, progress, status_var, afterQueue,
          ticks, posted, applied, msgbox, edits>>

\* the form as a record (what a snapshot taken at job start would hold)
Form ==
    [input |-> input_var, model |-> model_var, language |-> lang_var,
     device |-> device_var, output |-> output_var]

\* a Thread object just started on _do_transcription.  Its locals are those of
\* _do_transcription; sink is what the thread has done to the file at output_path;
\* request is the form at start, ffmpeg and probe what ffmpeg_available() and
\* get_media_duration() returned to the call that started it, cuda what
\* torch.cuda.is_available() returned to the thread (Unset: not called), calls
\* the blocking external calls made for the job, each with the thread that made it
NewThread(ffmpeg, probe) ==
    [pc |-> "resolve", requested |-> Unset, device |-> Unset, model_name |-> Unset,
     input_path |-> Unset, language |-> Unset, output_path |-> Unset, fp16 |-> Unset,
     text |-> Unset, sink |-> "untouched", request |-> Form, ffmpeg |-> PyBool(ffmpeg),
     probe |-> probe, cuda |-> Unset, calls |-> {<<"ffprobe", MainThread>>}]

\* a Thread object whose run() has returned
DeadThread ==
    [pc |-> "dead", requested |-> Unset, device |-> Unset, model_name |-> Unset,
     input_path |-> Unset, language |-> Unset, output_path |-> Unset, fp16 |-> Unset,
     text |-> Unset, sink |-> Unset, request |-> Unset, ffmpeg |-> Unset,
     probe |-> None, cuda |-> Unset, calls |-> {}]

\* Thread.is_alive()
is_alive(t) == threads[t].pc # "dead"

AliveThreads == { t \in 1..Len(threads) : is_alive(t) }

Init ==
    /\ input_var = <<>>
    /\ model_var = "large"
    /\ lang_var = "German"
    /\ device_var = "cuda"
    /\ output_var = <<"o">>
    /\ worker_thread = None
    /\ threads = <<>>
    /\ estimated_seconds = 0
    /\ elapsed_ms = 0
    /\ progress = Rat(0, 1)
    /\ status_var = [kind |-> "Ready", job |-> 0, arg |-> Unset]
    /\ afterQueue = <<>>
    /\ ticks = 0
    /\ posted = <<>>
    /\ applied = <<>>
    /\ msgbox = NoBox
    /\ edits = 0

(* --------------------------- form callbacks ---------------------------- *)
\* select_file, or typing in the entry bound to input_var
select_file ==
    /\ input_var = <<>> \/ edits < MaxEdits
    /\ \E filename \in InputTexts :
          /\ filename # <<>>
          /\ filename # input_var
          /\ input_var' = filename
    /\ edits' = IF input_var = <<>> THEN edits ELSE edits + 1
    /\ msgbox' = NoBox
    /\ UNCHANGED <<model_var, lang_var, device_var, output_var, worker_thread, threads,
                   estimated_seconds, elapsed_ms, progress, status_var, afterQueue,
                   ticks, posted, applied>>

\* select_output_file
select_output_file ==
    /\ edits < MaxEdits
    /\ \E filename \in OutputTexts :
          /\ filename # <<>>
          /\ filename # output_var
          /\ output_var' = filename
    /\ edits' = edits + 1
    /\ msgbox' = NoBox
    /\ UNCHANGED <<input_var, model_var, lang_var, device_var, worker_thread, threads,
                   estimated_seconds, elapsed_ms, progress, status_var, afterQueue,
                   ticks, posted, applied>>

\* the three read-only comboboxes
select_option ==
    /\ edits < MaxEdits
    /\ \/ \E m \in Models \ {model_var} :
             model_var' = m /\ UNCHANGED <<lang_var, device_var>>
       \/ \E l \in Languages \ {lang_var} :
             lang_var' = l /\ UNCHANGED <<model_var, device_var>>
       \/ \E d \in Devices \ {device_var} :
             device_var' = d /\ UNCHANGED <<model_var, lang_var>>
    /\ edits' = edits + 1
    /\ msgbox' = NoBox
    /\ UNCHANGED <<input_var, output_var, worker_thread, threads,
                   estimated_seconds, elapsed_ms, progress, status_var, afterQueue,
                   ticks, posted, applied>>

(* ------------------------- start_transcription ------------------------- *)
\* the os.path.exists test forgotten
InputValid_NonEmpty(input_path) == input_path # <<>>

\* not input_path or not os.path.exists(input_path), negated
InputValid(input_path) == input_path # <<>> /\ input_path \in ExistingFiles

\* the single-flight guard dropped: the liveness test always answers "not running"
WorkerAlive_NoGuard == FALSE

\* self.worker_thread and self.worker_thread.is_alive()
WorkerAlive == worker_thread # None /\ is_alive(worker_thread)

\* the factor 1.2 forgotten
Estimate_NoOverhead(duration) ==
    IF duration <= 0 THEN FallbackMs ELSE duration

\* duration_sec = get_media_duration(...); if duration_sec <= 0: duration_sec = 60;
\* estimated_seconds = duration_sec * 1.2
Estimate(duration) ==
    LET duration_sec == IF duration <= 0 THEN FallbackMs ELSE duration
    IN  (duration_sec * 12) \div 10

\* a job whose thread has ended and whose status messages have all been applied
Settled(t) ==
    /\ ~is_alive(t)
    /\ \A i \in DOMAIN afterQueue : afterQueue[i].job # t

\* the history less the jobs settled: the messages of the jobs still in flight
Unsettled(log) ==
    LET keep(m) == ~Settled(m.job)
    IN  SelectSeq(log, keep)

\* the branch of start_transcription past the three early returns
SpawnJob(probe, ffmpeg) ==
    /\ Len(threads) < MaxJobs
    /\ estimated_seconds' = Estimate(probe)
    /\ elapsed_ms' = 0
    /\ progress' = Rat(0, 1)
    /\ status_var' = [kind |-> "Starting", job |-> 0, arg |-> Unset]
    /\ threads' = Append(threads, NewThread(ffmpeg, probe))
    /\ worker_thread' = Len(threads) + 1
    /\ ticks' = ticks + 1
    /\ posted' = Unsettled(posted)
    /\ applied' = Unsettled(applied)
    /\ msgbox' = NoBox

\* messagebox.showerror / showinfo, then return
EarlyReturn(box) ==
    /\ msgbox' = box
    /\ UNCHANGED <<worker_thread, threads, etaVars, status_var, ticks, posted, applied>>

start_transcription ==
    /\ LET input_path == Strip(input_var) IN
       IF ~InputValid(input_path)
       THEN EarlyReturn("showerror_input")
       ELSE \E ffmpeg_available \in BOOLEAN :
            IF ~ffmpeg_available
            THEN EarlyReturn("showerror_ffmpeg")
            ELSE IF WorkerAlive
            THEN EarlyReturn("showinfo_running")
            ELSE \E probe \in ProbeResults : SpawnJob(probe, ffmpeg_available)
    /\ UNCHANGED <<formVars, afterQueue, edits>>

(* ---------------------------- _progress_tick --------------------------- *)
\* the percentage computed with integer division
Pct_Floor(elapsed, estimated) ==
    RatMin(Rat((elapsed * 100) \div estimated, 1), Rat(PctCap, 1))

\* the cap at 98 forgotten
Pct_NoCap(elapsed, estimated) == Rat(elapsed * 100, estimated)

\* pct = (elapsed_ms / (estimated_seconds * 1000)) * 100; pct = min(pct, 98)
Pct(elapsed, estimated) == RatMin(Rat(elapsed * 100, estimated), Rat(PctCap, 1))

\* int(max(0, (estimated_seconds * 1000 - elapsed_ms) / 1000))
Remaining(elapsed, estimated) ==
    IF estimated - elapsed <= 0 THEN 0 ELSE (estimated - elapsed) \div 1000

\* the branch of _progress_tick taken while the worker is alive
tick_running ==
    /\ elapsed_ms' = elapsed_ms + TickMs
    /\ progress' = Pct(elapsed_ms', estimated_seconds)
    /\ status_var' = [kind |-> "Running", job |-> 0,
                      arg |-> Remaining(elapsed_ms', estimated_seconds)]
    /\ ticks' = (ticks - 1) + 1

\* the ticker rescheduled on the else branch too
tick_finished_Reschedule ==
    /\ progress' = Rat(100, 1)
    /\ ticks' = (ticks - 1) + 1
    /\ UNCHANGED <<elapsed_ms, status_var>>

\* the bar left where it was when the worker is found finished
tick_finished_Idle ==
    /\ ticks' = ticks - 1
    /\ UNCHANGED <<elapsed_ms, status_var, progress>>

\* the else branch: worker finished
tick_finished ==
    /\ progress' = Rat(100, 1)
    /\ ticks' = ticks - 1
    /\ UNCHANGED <<elapsed_ms, status_var>>

\* one pending after(200, self._progress_tick) callback runs; at most limit
\* ticks find the worker alive
progress_tick_upto(limit) ==
    /\ ticks > 0
    /\ IF WorkerAlive
       THEN elapsed_ms < limit * TickMs /\ tick_running
       ELSE tick_finished
    /\ msgbox' = NoBox
    /\ UNCHANGED <<formVars, worker_thread, threads, estimated_seconds, afterQueue,
                   posted, applied, edits>>

progress_tick == progress_tick_upto(MaxTicks)

(* ------------------------- _set_status / _update ----------------------- *)
Msg(t, kind, arg) == [kind |-> kind, job |-> t, arg |-> arg]

\* the callback scheduled ahead of the pending ones
set_status_Front(msg) ==
    /\ Len(afterQueue) < MaxPending
    /\ afterQueue' = <<msg>> \o afterQueue
    /\ posted' = Append(Unsettled(posted), msg)
    /\ applied' = Unsettled(applied)
    /\ UNCHANGED status_var

\* _set_status(msg), called on the worker thread: self.after(0, _update)
set_status(msg) ==
    /\ Len(afterQueue) < MaxPending
    /\ afterQueue' = Append(afterQueue, msg)
    /\ posted' = Append(Unsettled(posted), msg)
    /\ applied' = Unsettled(applied)
    /\ UNCHANGED status_var

no_status == UNCHANGED <<afterQueue, posted, applied, status_var>>

\* the oldest pending _update closure runs on the main loop
update ==
    /\ afterQueue # <<>>
    /\ status_var' = Head(afterQueue)
    /\ applied' = Append(Unsettled(applied), Head(afterQueue))
    /\ posted' = Unsettled(posted)
    /\ afterQueue' = Tail(afterQueue)
    /\ msgbox' = NoBox
    /\ UNCHANGED <<formVars, worker_thread, threads, etaVars, ticks, edits>>

(* --------------------------- _do_transcription ------------------------- *)
\* the worker restarting the ETA clock itself
workerFrame_ResetsClock ==
    /\ msgbox' = NoBox
    /\ elapsed_ms' = 0
    /\ UNCHANGED <<formVars, worker_thread, estimated_seconds, progress, ticks, edits>>

\* what no statement of _do_transcription assigns
workerFrame ==
    /\ msgbox' = NoBox
    /\ UNCHANGED <<formVars, worker_thread, etaVars, ticks, edits>>

\* the handler reports the error and then blocks: the thread never returns
raise_Hang(ths, t, cause) ==
    /\ set_status(Msg(t, "Error", cause))
    /\ threads' = [ths EXCEPT ![t].pc = "hung"]

\* except Exception as e: self._set_status(f"Error: {e}")
raise(ths, t, cause) ==
    /\ set_status(Msg(t, "Error", cause))
    /\ threads' = [ths EXCEPT ![t].pc = "exiting"]

\* the status posted but the device left at cuda
do_resolve_KeepCuda(t) ==
    /\ threads[t].pc = "resolve"
    /\ \/ \E cuda_is_available \in BOOLEAN :
             LET asked == device_var = "cuda"
                 downgrade == asked /\ ~cuda_is_available
             IN  /\ threads' = [threads EXCEPT ![t].pc = "announce_load",
                                               ![t].requested = device_var,
                                               ![t].device = device_var,
                                               ![t].cuda = IF asked
                                                           THEN PyBool(cuda_is_available)
                                                           ELSE Unset]
                 /\ IF downgrade
                    THEN set_status(Msg(t, "CudaUnavailable", Unset))
                    ELSE no_status
       \/ raise(threads, t, "device")
    /\ workerFrame

\* device = self.device_var.get(); if device == "cuda" and not
\* torch.cuda.is_available(): device = "cpu"; self._set_status("CUDA not available ...")
do_resolve(t) ==
    /\ threads[t].pc = "resolve"
    /\ \/ \E cuda_is_available \in BOOLEAN :
             LET asked == device_var = "cuda"
                 downgrade == asked /\ ~cuda_is_available
                 device == IF downgrade THEN "cpu" ELSE device_var
             IN  /\ threads' = [threads EXCEPT ![t].pc = "announce_load",
                                               ![t].requested = device_var,
                                               ![t].device = device,
                                               ![t].cuda = IF asked
                                                           THEN PyBool(cuda_is_available)
                                                           ELSE Unset]
                 /\ IF downgrade
                    THEN set_status(Msg(t, "CudaUnavailable", Unset))
                    ELSE no_status
       \/ raise(threads, t, "device")
    /\ workerFrame

\* model_name = self.model_var.get(); self._set_status("Loading model ...")
do_announce_load(t) ==
    /\ threads[t].pc = "announce_load"
    /\ threads' = [threads EXCEPT ![t].pc = "load", ![t].model_name = model_var]
    /\ set_status(Msg(t, "Loading", model_var))
    /\ workerFrame

\* model = whisper.load_model(model_name, device=device)
do_load_model(t) ==
    /\ threads[t].pc = "load"
    /\ LET called == [threads EXCEPT ![t].calls = @ \cup {<<"load_model", Worker>>}] IN
       \/ /\ threads' = [called EXCEPT ![t].pc = "announce_transcribe"]
          /\ no_status
       \/ raise(called, t, "load")
    /\ workerFrame

\* self._set_status("Transcribing ..."); input_path and language are read
do_announce_transcribe(t) ==
    /\ threads[t].pc = "announce_transcribe"
    /\ threads' = [threads EXCEPT ![t].pc = "transcribe",
                                  ![t].input_path = Strip(input_var),
                                  ![t].language =
                                      IF lang_var = "Auto" THEN "None" ELSE lang_var]
    /\ set_status(Msg(t, "Transcribing", Unset))
    /\ workerFrame

\* result = model.transcribe(input_path, language=language, fp16=(device == "cuda"), ...)
do_transcribe(t) ==
    /\ threads[t].pc = "transcribe"
    /\ LET called == [threads EXCEPT ![t].calls = @ \cup {<<"transcribe", Worker>>}] IN
       \/ /\ threads[t].input_path \in ExistingFiles
          /\ threads' = [called EXCEPT ![t].pc = "write",
                                       ![t].fp16 = PyBool(threads[t].device = "cuda"),
                                       ![t].text = threads[t].input_path]
          /\ no_status
       \/ raise(called, t, "transcribe")
    /\ workerFrame

\* output_path = self.output_var.get().strip(); open(output_path, "w"); f.write(text)
do_write(t) ==
    /\ threads[t].pc = "write"
    /\ LET output_path == Strip(output_var) IN
       \/ /\ output_path # <<>>
          /\ threads' = [threads EXCEPT ![t].pc = "post_done",
                                        ![t].output_path = output_path,
                                        ![t].sink = "full"]
          /\ no_status
       \/ /\ output_path # <<>>
          /\ raise([threads EXCEPT ![t].output_path = output_path,
                                   ![t].sink = "truncated"], t, "write")
       \/ raise([threads EXCEPT ![t].output_path = output_path], t, "open")
    /\ workerFrame

\* the final status forgotten: the thread ends without posting "Done"
do_post_done_Silent(t) ==
    /\ threads[t].pc = "post_done"
    /\ threads' = [threads EXCEPT ![t].pc = "exiting"]
    /\ no_status
    /\ workerFrame

\* self._set_status(f"Done. Transcript saved to: {output_path}")
do_post_done(t) ==
    /\ threads[t].pc = "post_done"
    /\ threads' = [threads EXCEPT ![t].pc = "exiting"]
    /\ set_status(Msg(t, "Done", threads[t].output_path))
    /\ workerFrame

\* _do_transcription returns and the thread ends
do_exit(t) ==
    /\ threads[t].pc = "exiting"
    /\ threads' = [threads EXCEPT ![t] = DeadThread]
    /\ no_status
    /\ workerFrame

do_transcription(t) ==
    \/ do_resolve(t)
    \/ do_announce_load(t)
    \/ do_load_model(t)
    \/ do_announce_transcribe(t)
    \/ do_transcribe(t)
    \/ do_write(t)
    \/ do_post_done(t)
    \/ do_exit(t)

(* --------------------------- specification ----------------------------- *)
Next ==
    \/ select_file
    \/ select_output_file
    \/ select_option
    \/ start_transcription
    \/ progress_tick
    \/ update
    \/ \E t \in DOMAIN threads : do_transcription(t)

Spec == Init /\ [][Next]_vars

\* The Tk main loop runs every timer that is due and every pending after(0)
\* callback, and the operating system schedules the worker thread.
FairSpec ==
    /\ Spec
    /\ WF_vars(progress_tick)
    /\ WF_vars(update)
    /\ WF_vars(\E t \in DOMAIN threads : do_transcription(t))

(* ----------------------- one long job, ticking ------------------------- *)
\* The state in which start_transcription leaves a program just launched, an
\* existing input file selected: the job started, its first tick scheduled.
TickerInit ==
    /\ input_var = <<Blank, "b">>
    /\ model_var = "large"
    /\ lang_var = "German"
    /\ device_var = "cuda"
    /\ output_var = <<"o">>
    /\ worker_thread = 1
    /\ \E probe \in ProbeResults :
          /\ threads = <<NewThread(TRUE, probe)>>
          /\ estimated_seconds = Estimate(probe)
    /\ elapsed_ms = 0
    /\ progress = Rat(0, 1)
    /\ status_var = [kind |-> "Starting", job |-> 0, arg |-> Unset]
    /\ afterQueue = <<>>
    /\ ticks = 1
    /\ posted = <<>>
    /\ applied = <<>>
    /\ msgbox = NoBox
    /\ edits = 0

\* the ticker alone runs: the worker stays in its first blocking call and the
\* user leaves the form alone
TickerNext == progress_tick_upto(MaxLongTicks)

TickerSpec == TickerInit /\ [][TickerNext]_vars

(* ------------------------------- claims -------------------------------- *)
\* the step starts a thread
Spawns == Len(threads') > Len(threads)

\* the step is a start_transcription call: it raised a box or started a thread
\* (a call that raises the box already recorded changes nothing at all)
Calls == msgbox' # NoBox \/ Spawns

\* the controller holds a thread that has ended
JobEnded == worker_thread # None /\ ~is_alive(worker_thread)

InputOk == Strip(input_var) # <<>> /\ Strip(input_var) \in ExistingFiles

IsTerminal(m) == m.kind \in {"Done", "Error"}

\* the messages of job t in a log, in order
JobMsgs(log, t) ==
    LET mine(m) == m.job = t
    IN  SelectSeq(log, mine)

IsPrefix(a, b) == Len(a) <= Len(b) /\ a = SubSeq(b, 1, Len(a))

Terminals(log) ==
    LET term(m) == IsTerminal(m)
    IN  Len(SelectSeq(log, term))

Pct100 == Rat(100, 1)

\* C1: at most one worker thread is alive in every reachable state, and a call
\* of start_transcription made while a thread is alive starts no thread and
\* leaves worker_thread, estimated_seconds, elapsed_ms and progress unchanged.
C1_SingleFlight ==
    [][ /\ Cardinality(AliveThreads') <= 1
        /\ (AliveThreads # {} /\ Calls) =>
              /\ ~Spawns
              /\ UNCHANGED <<worker_thread, threads, etaVars>> ]_vars

\* a Start press while the job runs and the ticker has advanced: the info box
C1_Witness ==
    /\ msgbox = "showinfo_running"
    /\ AliveThreads # {}
    /\ elapsed_ms > 0

\* C2: a job's thread posts no terminal message before it is about to end,
\* exactly one by then, nothing after it; the controller applies the job's
\* messages in the order posted, so that once all are applied the terminal
\* message is the last one applied.
C2_OneTerminalLast ==
    \A t \in DOMAIN threads :
        LET p == JobMsgs(posted, t)
            a == JobMsgs(applied, t)
            ended == threads[t].pc \in {"exiting", "dead"}
            forgotten == threads[t].pc = "dead" /\ p = <<>> /\ a = <<>>
        IN  /\ IsPrefix(a, p)
            /\ ~ended => Terminals(p) = 0
            /\ (ended /\ ~forgotten) =>
                  /\ Terminals(p) = 1
                  /\ IsTerminal(p[Len(p)])
            /\ (Settled(t) /\ ~forgotten) =>
                  /\ a = p
                  /\ IsTerminal(a[Len(a)])

\* a job that failed in transcription or later has ended, and its messages are applied
C2_Witness ==
    \E t \in DOMAIN threads :
        LET a == JobMsgs(applied, t)
        IN  /\ Settled(t)
            /\ Len(a) >= 3
            /\ a[Len(a)].kind = "Error"

\* C3: while a job's thread is alive the progress value is at most 98, and no
\* step taken while the same job stays alive decreases it.
C3_ProgressMonotoneCapped ==
    [][ /\ AliveThreads' # {} => RatLE(progress', Rat(PctCap, 1))
        /\ (AliveThreads # {} /\ AliveThreads' = AliveThreads) =>
              RatLE(progress, progress') ]_vars

\* the ticker has reached the cap while the job is still running
C3_Witness ==
    /\ AliveThreads # {}
    /\ progress = Rat(PctCap, 1)
    /\ elapsed_ms = MaxTicks * TickMs

\* C4: once the thread held by the controller has ended, a step that is not a
\* start either leaves ticks and progress alone or is a tick that sets progress
\* to 100 and is not rescheduled; and unless a new job is started the system
\* reaches progress = 100 with no tick pending.
C4_FinalTick ==
    /\ [][ (JobEnded /\ ~Spawns) =>
              \/ UNCHANGED <<ticks, progress>>
              \/ ticks' = ticks - 1 /\ progress' = Pct100 ]_vars
    /\ JobEnded ~> ((progress = Pct100 /\ ticks = 0) \/ AliveThreads # {})

\* the job has ended, the last tick has run
C4_Witness ==
    /\ JobEnded
    /\ progress = Pct100
    /\ ticks = 0
    /\ elapsed_ms > 0

\* C5 as stated: whenever the terminal status of the controller's job has been
\* applied, the progress value is 100.
C5_Original ==
    \A i \in DOMAIN applied :
        (IsTerminal(applied[i]) /\ applied[i].job = worker_thread) => progress = Pct100

\* C5 amended: the progress value is 100 or more only when the controller's
\* thread has ended, hence after its terminal status message was posted; and
\* it is 100 once the thread has ended and no tick is pending.  (The terminal
\* status may be applied while the value is still below 100.)
C5_Amended ==
    /\ (worker_thread # None /\ RatLE(Pct100, progress)) =>
          /\ ~is_alive(worker_thread)
          /\ \E i \in DOMAIN posted :
                IsTerminal(posted[i]) /\ posted[i].job = worker_thread
    /\ (JobEnded /\ ticks = 0) => progress = Pct100

\* the terminal status is applied and shown, the thread has ended, the last tick
\* is still pending and the bar is below 100
C5_Witness ==
    /\ JobEnded
    /\ ticks > 0
    /\ IsTerminal(status_var)
    /\ status_var.job = worker_thread
    /\ ~RatLE(Pct100, progress)

\* C6 as stated: whatever a job's thread has read from the form equals what the
\* form held when the job was started.
C6_SnapshotUsed ==
    \A t \in AliveThreads :
        LET th == threads[t] IN
        /\ th.requested # Unset => th.requested = th.request.device
        /\ th.model_name # Unset => th.model_name = th.request.model
        /\ th.input_path # Unset => th.input_path = Strip(th.request.input)
        /\ th.language # Unset =>
              th.language = IF th.request.language = "Auto" THEN "None"
                            ELSE th.request.language
        /\ th.output_path # Unset => th.output_path = Strip(th.request.output)

\* C7: a call that raises one of the two error boxes changes nothing else (no
\* thread, no tick, same liveness, ETA fields, progress, status text, queue); a
\* call made with an empty or non-existent input path raises the input error
\* box; and a thread is started only by a call that found the input file
\* present and ffmpeg reachable.
C7_PreconditionErrors ==
    [][ /\ msgbox' \in {"showerror_input", "showerror_ffmpeg"} =>
              UNCHANGED <<formVars, worker_thread, threads, etaVars, status_var,
                          ticks, afterQueue, posted, applied, edits>>
        /\ (Calls /\ ~InputOk) => msgbox' = "showerror_input"
        /\ Spawns =>
              /\ InputOk
              /\ threads'[Len(threads')].ffmpeg = "True" ]_vars

\* ffmpeg found missing by a Start press made after a job has run to its end
C7_Witness ==
    /\ msgbox = "showerror_ffmpeg"
    /\ JobEnded
    /\ progress = Pct100
    /\ status_var.kind = "Done"

\* C8 as stated: a call made while a thread is alive raises the "already
\* running" info box, never an error box, whatever the input path and ffmpeg.
C8_Original ==
    [][ (AliveThreads # {} /\ Calls) => msgbox' = "showinfo_running" ]_vars

\* C9: a thread that has posted Error does nothing more than end, and it does
\* end (the thread the controller holds, once about to end, has ended some time
\* later); and once the controller's thread has ended, a call made with a valid
\* input path never answers "already running": it reports ffmpeg missing or
\* starts a new thread, and starting one is possible.
C9_ErrorThenRestart ==
    /\ [][ /\ \A t \in AliveThreads' :
                 LET p == JobMsgs(posted', t)
                 IN  (p # <<>> /\ p[Len(p)].kind = "Error") => threads'[t].pc = "exiting"
           /\ (JobEnded /\ InputOk /\ Calls /\ ~Spawns) => msgbox' = "showerror_ffmpeg"
           /\ (JobEnded /\ InputOk /\ Len(threads) < MaxJobs) =>
                 ENABLED (start_transcription /\ Spawns) ]_vars
    /\ (WorkerAlive /\ threads[worker_thread].pc = "exiting") ~> JobEnded

\* a second job is running while the Error message of the first is still queued
C9_Witness ==
    /\ Len(threads) >= 2
    /\ is_alive(2)
    /\ ~is_alive(1)
    /\ \E i \in DOMAIN afterQueue : afterQueue[i].job = 1 /\ afterQueue[i].kind = "Error"

\* C10: the messages posted are the messages applied followed by the messages
\* pending, in order (none dropped, duplicated or reordered); a step of the
\* worker thread never changes the status text; a message is written to the
\* status text by the step that moves it from pending to applied.
C10_StatusChannel ==
    [][ /\ posted' = applied' \o afterQueue'
        /\ (threads' # threads /\ ~Spawns) => status_var' = status_var
        /\ Len(applied') > Len(applied) => status_var' = applied'[Len(applied')] ]_vars

\* one message applied, two pending: order matters
C10_Witness ==
    /\ Len(afterQueue) = 2
    /\ applied # <<>>
    /\ afterQueue[1] # afterQueue[2]

\* C11: every step that starts a thread sets elapsed_ms to 0 and
\* estimated_seconds to 1.2 times the duration the probe returned to that call,
\* a duration <= 0 (a failed probe returns 0) counting as 60 s: 72 s then, and
\* 36 s for a probed 30 s; for the first job and for the later ones alike.
C11_EstimateAtStart ==
    [][ Spawns =>
          LET d == threads'[Len(threads')].probe
              duration_sec == IF d <= 0 THEN 60000 ELSE d
          IN  /\ elapsed_ms' = 0
              /\ estimated_seconds' * 10 = duration_sec * 12
              /\ d <= 0 => estimated_seconds' = 72000
              /\ d = 30000 => estimated_seconds' = 36000 ]_vars

\* a second job just started on a 30 s file, the first one having run on the
\* fallback estimate
C11_Witness ==
    /\ Len(threads) = 2
    /\ threads[2].pc = "resolve"
    /\ threads[2].probe = 30000
    /\ estimated_seconds = 36000
    /\ elapsed_ms = 0

\* C12: a tick that finds the job alive adds 200 to elapsed_ms and sets the
\* progress value to elapsed_ms / estimated_seconds * 100 (estimated_seconds in
\* ms here) when that is at most 98 and to 98 otherwise: 50 at 18000 ms of an
\* estimate of 36 s, and 98 from 98% of the estimate on.
C12_ProgressFormula ==
    [][ (WorkerAlive /\ elapsed_ms' # elapsed_ms) =>
           /\ elapsed_ms' = elapsed_ms + 200
           /\ IF elapsed_ms' * 100 <= 98 * estimated_seconds
              THEN progress'.num * estimated_seconds = elapsed_ms' * 100 * progress'.den
              ELSE progress' = [num |-> 98, den |-> 1]
           /\ (estimated_seconds = 36000 /\ elapsed_ms' = 18000) =>
                 progress' = [num |-> 50, den |-> 1]
           /\ elapsed_ms' * 100 >= 98 * estimated_seconds =>
                 progress' = [num |-> 98, den |-> 1] ]_vars

\* half of a 36 s estimate has elapsed and the bar stands at 50
C12_Witness ==
    /\ AliveThreads # {}
    /\ estimated_seconds = 36000
    /\ elapsed_ms = 18000
    /\ progress = [num |-> 50, den |-> 1]

\* C13: in a job whose thread read device cuda and was told that cuda is not
\* available, the device is cpu from then on, the first message the job posts
\* is the downgrade notice (so it precedes "Loading model"), the transcription
\* runs with fp16 off, and the step that downgrades goes on to load the model:
\* it posts no Error.
C13_CudaFallback ==
    [][ \A t \in AliveThreads' :
           LET th == threads'[t]
               p  == JobMsgs(posted', t)
           IN  th.cuda = "False" =>
                  /\ th.requested = "cuda"
                  /\ th.device = "cpu"
                  /\ p # <<>>
                  /\ p[1].kind = "CudaUnavailable"
                  /\ \A i \in DOMAIN p : p[i].kind = "Loading" => i = 2
                  /\ th.fp16 \in {Unset, "False"}
                  /\ (t \in AliveThreads /\ threads[t].cuda = Unset) =>
                        /\ th.pc = "announce_load"
                        /\ Terminals(p) = 0 ]_vars

\* a downgraded job has transcribed on the cpu, written its output and posted Done
C13_Witness ==
    \E t \in AliveThreads :
        LET p == JobMsgs(posted, t)
        IN  /\ threads[t].cuda = "False"
            /\ threads[t].device = "cpu"
            /\ threads[t].fp16 = "False"
            /\ threads[t].sink = "full"
            /\ Len(p) = 4
            /\ p[2].kind = "Loading"
            /\ p[4].kind = "Done"

\* C14 as stated: a job's thread has touched the output file only if the job
\* ends with Done, the file then holding the full transcript; a thread that
\* has posted Error has left the file untouched.
C14_OutputOnlyOnDone ==
    \A t \in AliveThreads :
        LET th == threads[t]
            p  == JobMsgs(posted, t)
        IN  /\ th.sink \in {"untouched", "full"}
            /\ th.sink = "full" => th.text # Unset
            /\ (p # <<>> /\ p[Len(p)].kind = "Error") => th.sink = "untouched"
            /\ (p # <<>> /\ p[Len(p)].kind = "Done") => th.sink = "full"

\* C15: estimated_seconds changes only in a step that starts a thread, hence
\* never while a thread is alive; elapsed_ms changes only to 0 in a step that
\* starts a thread, or by +200 in a tick (rescheduled, no thread touched) that
\* finds the held thread alive; a step of a worker thread changes neither.
C15_EtaOwnership ==
    [][ /\ estimated_seconds' # estimated_seconds => Spawns
        /\ AliveThreads # {} => estimated_seconds' = estimated_seconds
        /\ Spawns => elapsed_ms' = 0
        /\ (elapsed_ms' # elapsed_ms /\ ~Spawns) =>
              /\ WorkerAlive
              /\ elapsed_ms' = elapsed_ms + 200
              /\ ticks > 0
              /\ ticks' = ticks
              /\ threads' = threads
        /\ (threads' # threads /\ ~Spawns) =>
              UNCHANGED <<estimated_seconds, elapsed_ms>> ]_vars

\* a second job has been ticked to the bound and its thread is about to end
C15_Witness ==
    /\ Len(threads) = 2
    /\ threads[2].pc = "exiting"
    /\ elapsed_ms = MaxTicks * TickMs
    /\ estimated_seconds = 36000

\* C16 as stated: every blocking external call made for a job (the duration
\* probe, the model load, the engine call) is made by the job's worker thread,
\* none by the thread of the main loop.
C16_NoBlockingOnMain ==
    \A t \in AliveThreads :
        \A c \in threads[t].calls : c[2] = Worker

\* C17 as stated: at most one progress-tick callback is pending at any time.
C17_OneTickPending == ticks <= 1

\* C18 as stated: once the held thread has ended and no status callback and no
\* tick is pending, the status text is that job's terminal status message.
C18_TerminalStatusShown ==
    (JobEnded /\ afterQueue = <<>> /\ ticks = 0) =>
        /\ IsTerminal(status_var)
        /\ status_var.job = worker_thread

====
